---- MODULE Spec2Model ----
(***************************************************************************)
(* Model of the FHIR ETL pipeline: the value extractors and resource       *)
(* parsers of src/src/parse_fhir.py, the schema/load orchestrator of       *)
(* src/src/load_database.py and the reader of src/src/analytics.py.        *)
(*                                                                         *)
(* Representation of Python/JSON values:                                   *)
(*   dict            a function with a set of strings as its domain        *)
(*                   (a TLA+ record); a key is present iff it is in DOMAIN *)
(*   list            a sequence                                            *)
(*   str             a string; a reference string is a sequence of tokens  *)
(*                   in which the separators "urn:uuid:" and "/" are       *)
(*                   tokens of their own, so that `in` and split() act on  *)
(*                   the structure of the text                             *)
(*   None            None where a scalar is expected, NoneObj where a dict *)
(*                   is expected                                           *)
(***************************************************************************)
EXTENDS Integers, Sequences, FiniteSets, TLC

VARIABLES
    docs,        \* the files matched by ../data/raw/fhir/*.json, in glob order
    pc,          \* position of load_database.main
    run,         \* number of the current invocation of load_database.main
    dataframes,  \* the dict returned by parse_fhir.main
    origin,      \* history: for each record of dataframes, <<file, entry>> it came from
    errors,      \* per parser, the files for which "Error parsing ..." was printed
    db,          \* the committed content of ../data/fhir_data.db
    conn,        \* the sqlite3 connection held by load_database.main
    loaded,      \* tables already written by the running load_data call
    exitStatus,  \* how the last invocation of main ended
    storeAfter,  \* history: db before the first invocation and at the end of each
    readerView,  \* what execute_query last observed during the current invocation
    probe,       \* extractor call under test: function, argument, result
    raw,         \* ../data/raw as download_data.py finds and leaves it
    boot         \* position of download_data.py's __main__, with its history

vars == <<docs, pc, run, dataframes, origin, errors, db, conn, loaded,
          exitStatus, storeAfter, readerView, probe, raw, boot>>

(***************************************************************************)
(* Bounds                                                                  *)
(***************************************************************************)
MaxDocs == 2
MaxRuns == 2

(***************************************************************************)
(* Python values                                                           *)
(***************************************************************************)
None == "<None>"
NoneObj == [isNone |-> TRUE]
EmptyDict == [k \in {} |-> None]
AttributeError == "<AttributeError>"

IsNone(d) == "isNone" \in DOMAIN d
Has(d, k) == k \in DOMAIN d
\* not d, for d a dict or None
Falsy(d) == IsNone(d) \/ DOMAIN d = {}
\* d.get(k) for a scalar, a dict and a list valued key
GetS(d, k) == IF Has(d, k) THEN d[k] ELSE None
GetD(d, k) == IF Has(d, k) THEN d[k] ELSE NoneObj
GetL(d, k) == IF Has(d, k) THEN d[k] ELSE <<>>
\* str(x) as used by an f-string
PyStr(x) == IF x = None THEN "None" ELSE x
Digits == <<"0", "1", "2", "3", "4", "5", "6", "7", "8", "9">>
RECURSIVE IntStr(_)
IntStr(i) == IF i < 10 THEN Digits[i + 1]
             ELSE IntStr(i \div 10) \o Digits[(i % 10) + 1]

Range(s) == {s[i] : i \in DOMAIN s}

RECURSIVE Join(_)
Join(toks) == IF toks = <<>> THEN "" ELSE Head(toks) \o Join(Tail(toks))

Contains(toks, sep) == \E i \in DOMAIN toks : toks[i] = sep
\* text.split(sep)[-1]
AfterLast(toks, sep) ==
    LET last == CHOOSE i \in DOMAIN toks :
                    toks[i] = sep /\ \A j \in DOMAIN toks : toks[j] = sep => j <= i
    IN SubSeq(toks, last + 1, Len(toks))

URN == "urn:uuid:"

(***************************************************************************)
(* Value extractors (parse_fhir.py)                                        *)
(***************************************************************************)
\* the slash rule tested before the URN rule
extract_reference_id_slashFirst(reference_dict) ==
    IF Falsy(reference_dict) THEN None
    ELSE LET reference == GetL(reference_dict, "reference")
         IN IF Contains(reference, "/") THEN Join(AfterLast(reference, "/"))
            ELSE IF Contains(reference, URN) THEN Join(AfterLast(reference, URN))
            ELSE Join(reference)

extract_reference_id(reference_dict) ==
    IF Falsy(reference_dict) THEN None
    ELSE LET reference == GetL(reference_dict, "reference")
         IN IF Contains(reference, URN) THEN Join(AfterLast(reference, URN))
            ELSE IF Contains(reference, "/") THEN Join(AfterLast(reference, "/"))
            ELSE Join(reference)

\* the first coding whatever the index
safe_get_coding_first(codeable_concept, index) ==
    IF Falsy(codeable_concept) THEN <<None, None>>
    ELSE LET coding_list == GetL(codeable_concept, "coding")
         IN IF coding_list = <<>> \/ Len(coding_list) <= index THEN <<None, None>>
            ELSE <<GetS(coding_list[1], "code"), GetS(coding_list[1], "display")>>

safe_get_coding(codeable_concept, index) ==
    IF Falsy(codeable_concept) THEN <<None, None>>
    ELSE LET coding_list == GetL(codeable_concept, "coding")
         IN IF coding_list = <<>> \/ Len(coding_list) <= index THEN <<None, None>>
            ELSE LET coding == coding_list[index + 1]
                 IN <<GetS(coding, "code"), GetS(coding, "display")>>

\* the nested loops shared by extract_race and extract_ethnicity
\* the inner loop looking at the first nested extension only
InnerText_firstOnly(inner_extensions) ==
    IF inner_extensions # <<>> /\ GetS(Head(inner_extensions), "url") = "text"
    THEN [found |-> TRUE, value |-> GetS(Head(inner_extensions), "valueString")]
    ELSE [found |-> FALSE, value |-> None]

RECURSIVE InnerText(_)
InnerText(inner_extensions) ==
    IF inner_extensions = <<>> THEN [found |-> FALSE, value |-> None]
    ELSE IF GetS(Head(inner_extensions), "url") = "text"
         THEN [found |-> TRUE, value |-> GetS(Head(inner_extensions), "valueString")]
         ELSE InnerText(Tail(inner_extensions))

RECURSIVE ExtensionText(_, _)
ExtensionText(extensions, marker) ==
    IF extensions = <<>> THEN None
    ELSE LET ext == Head(extensions)
             url == IF Has(ext, "url") THEN ext.url ELSE <<>>
             hit == IF Contains(url, marker)
                    THEN InnerText(GetL(ext, "extension"))
                    ELSE [found |-> FALSE, value |-> None]
         IN IF hit.found THEN hit.value ELSE ExtensionText(Tail(extensions), marker)

\* a default in place of the null for a patient without the extension
extract_race_unknown(patient_resource) ==
    IF IsNone(patient_resource) THEN AttributeError
    ELSE IF ExtensionText(GetL(patient_resource, "extension"), "us-core-race") = None
    THEN "Unknown"
    ELSE ExtensionText(GetL(patient_resource, "extension"), "us-core-race")

extract_race(patient_resource) ==
    IF IsNone(patient_resource) THEN AttributeError
    ELSE ExtensionText(GetL(patient_resource, "extension"), "us-core-race")

extract_ethnicity(patient_resource) ==
    IF IsNone(patient_resource) THEN AttributeError
    ELSE ExtensionText(GetL(patient_resource, "extension"), "us-core-ethnicity")

(***************************************************************************)
(* Resource parsers (parse_fhir.py).  Each *Body operator is the part of    *)
(* a parser's entry loop that follows the resourceType filter; it yields    *)
(* the records appended for one resource and whether an exception left the  *)
(* loop.  Exceptions modelled: a file that cannot be opened or decoded, an  *)
(* entry whose resource is null, a name whose given list is empty, a null   *)
(* valueQuantity or period or class.                                        *)
(***************************************************************************)
Tables == <<"patients", "conditions", "observations", "encounters",
            "medication_requests">>
TableSet == Range(Tables)
ChildTables == TableSet \ {"patients"}

ResourceType(kind) ==
    CASE kind = "patients" -> "Patient"
      [] kind = "conditions" -> "Condition"
      [] kind = "observations" -> "Observation"
      [] kind = "encounters" -> "Encounter"
      [] kind = "medication_requests" -> "MedicationRequest"

Appended(recs) == [raised |-> FALSE, recs |-> recs]
Raised(recs) == [raised |-> TRUE, recs |-> recs]

PatientBody(resource) ==
    LET name_list == IF Has(resource, "name") THEN resource.name ELSE <<EmptyDict>>
        name == IF name_list # <<>> THEN name_list[1] ELSE EmptyDict
        given == IF Has(name, "given") THEN name.given ELSE <<"">>
        family_name == IF Has(name, "family") THEN name.family ELSE ""
        address_list == IF Has(resource, "address") THEN resource.address
                        ELSE <<EmptyDict>>
        address == IF address_list # <<>> THEN address_list[1] ELSE EmptyDict
    IN IF given = <<>> THEN Raised(<<>>)
       ELSE Appended(<<[id |-> GetS(resource, "id"),
                        given_name |-> given[1],
                        family_name |-> family_name,
                        gender |-> GetS(resource, "gender"),
                        birth_date |-> GetS(resource, "birthDate"),
                        race |-> extract_race(resource),
                        ethnicity |-> extract_ethnicity(resource),
                        city |-> GetS(address, "city"),
                        state |-> GetS(address, "state")]>>)

ConditionBody(resource) ==
    LET cd == safe_get_coding(GetD(resource, "code"), 0)
        cs == safe_get_coding(GetD(resource, "clinicalStatus"), 0)
    IN Appended(<<[id |-> GetS(resource, "id"),
                   patient_id |-> extract_reference_id(GetD(resource, "subject")),
                   code |-> cd[1],
                   display |-> cd[2],
                   clinical_status |-> cs[1],
                   onset_date |-> GetS(resource, "onsetDateTime")]>>)

\* the id without its positional suffix
ComponentId_noSuffix(resource, idx) == PyStr(GetS(resource, "id"))

\* f"{resource.get('id')}-{idx}"
ComponentId(resource, idx) ==
    PyStr(GetS(resource, "id")) \o "-" \o IntStr(idx)

\* the record built for the component at zero-based position idx
ComponentRecord(resource, category_code, idx, comp) ==
    LET cc == safe_get_coding(GetD(comp, "code"), 0)
        hasQty == Has(comp, "valueQuantity")
    IN [id |-> ComponentId(resource, idx),
        patient_id |-> extract_reference_id(GetD(resource, "subject")),
        code |-> cc[1],
        display |-> cc[2],
        value |-> IF hasQty THEN GetS(comp.valueQuantity, "value") ELSE None,
        unit |-> IF hasQty THEN GetS(comp.valueQuantity, "unit") ELSE None,
        effective_date |-> GetS(resource, "effectiveDateTime"),
        category |-> category_code]

\* the markers tested with the component list first
ValueShape_componentFirst(resource) ==
    IF Has(resource, "component") THEN "component"
    ELSE IF Has(resource, "valueQuantity") THEN "valueQuantity"
    ELSE IF Has(resource, "valueCodeableConcept") THEN "valueCodeableConcept"
    ELSE "none"

\* the if / elif / elif chain over the three value markers
ValueShape(resource) ==
    IF Has(resource, "valueQuantity") THEN "valueQuantity"
    ELSE IF Has(resource, "valueCodeableConcept") THEN "valueCodeableConcept"
    ELSE IF Has(resource, "component") THEN "component"
    ELSE "none"

\* the main record given the id of a first component
MainRecord_suffixed(resource, cd, category_code, value, unit) ==
    [id |-> PyStr(GetS(resource, "id")) \o "-0",
     patient_id |-> extract_reference_id(GetD(resource, "subject")),
     code |-> cd[1],
     display |-> cd[2],
     value |-> value,
     unit |-> unit,
     effective_date |-> GetS(resource, "effectiveDateTime"),
     category |-> category_code]

\* the record appended after the if / elif chain, for an observation that
\* is not split into components
MainRecord(resource, cd, category_code, value, unit) ==
    [id |-> GetS(resource, "id"),
     patient_id |-> extract_reference_id(GetD(resource, "subject")),
     code |-> cd[1],
     display |-> cd[2],
     value |-> value,
     unit |-> unit,
     effective_date |-> GetS(resource, "effectiveDateTime"),
     category |-> category_code]

ObservationBody(resource) ==
    LET cd == safe_get_coding(GetD(resource, "code"), 0)
        category_list == GetL(resource, "category")
        category_code == IF category_list # <<>>
                         THEN safe_get_coding(category_list[1], 0)[1] ELSE None
        Main(value, unit) == MainRecord(resource, cd, category_code, value, unit)
        shape == ValueShape(resource)
    IN IF shape = "valueQuantity"
       THEN IF IsNone(resource.valueQuantity) THEN Raised(<<>>)
            ELSE Appended(<<Main(GetS(resource.valueQuantity, "value"),
                                 GetS(resource.valueQuantity, "unit"))>>)
       ELSE IF shape = "valueCodeableConcept"
       THEN Appended(<<Main(safe_get_coding(resource.valueCodeableConcept, 0)[2],
                            None)>>)
       ELSE IF shape = "component"
       THEN Appended([i \in 1..Len(resource.component) |->
                        ComponentRecord(resource, category_code, i - 1,
                                        resource.component[i])])
       ELSE Appended(<<Main(None, None)>>)

EncounterBody(resource) ==
    LET class == IF Has(resource, "class") THEN resource.class ELSE EmptyDict
        type_list == GetL(resource, "type")
        type_display == IF type_list # <<>>
                        THEN safe_get_coding(type_list[1], 0)[2] ELSE None
        period == IF Has(resource, "period") THEN resource.period ELSE EmptyDict
    IN IF IsNone(class) \/ IsNone(period) THEN Raised(<<>>)
       ELSE Appended(<<[id |-> GetS(resource, "id"),
                        patient_id |-> extract_reference_id(GetD(resource, "subject")),
                        encounter_class |-> GetS(class, "code"),
                        type_display |-> type_display,
                        start_date |-> GetS(period, "start"),
                        end_date |-> GetS(period, "end")]>>)

MedicationRequestBody(resource) ==
    LET md == safe_get_coding(GetD(resource, "medicationCodeableConcept"), 0)
    IN Appended(<<[id |-> GetS(resource, "id"),
                   patient_id |-> extract_reference_id(GetD(resource, "subject")),
                   medication_code |-> md[1],
                   medication_display |-> md[2],
                   authored_on |-> GetS(resource, "authoredOn"),
                   status |-> GetS(resource, "status")]>>)

Body(kind, resource) ==
    CASE kind = "patients" -> PatientBody(resource)
      [] kind = "conditions" -> ConditionBody(resource)
      [] kind = "observations" -> ObservationBody(resource)
      [] kind = "encounters" -> EncounterBody(resource)
      [] kind = "medication_requests" -> MedicationRequestBody(resource)

\* the records of the entry at position j, then those of the entries after
\* it; src gives, for each record, the position of the entry that made it
Scanned(recs, j, raised, rest) ==
    [recs |-> recs \o rest.recs,
     src |-> [i \in 1..Len(recs) |-> j] \o rest.src,
     raised |-> raised \/ rest.raised]
NothingScanned == [recs |-> <<>>, src |-> <<>>, raised |-> FALSE]

\* for entry in bundle.get('entry', []): ... from position j on.  An
\* exception ends the loop; so does the break of parse_patients.
RECURSIVE ScanEntries(_, _, _)
RECURSIVE ScanFrom(_, _, _, _)
\* the loop over the entries without the break after a patient
ScanFrom_noBreak(kind, entries, j, b) ==
    IF b.raised THEN Scanned(b.recs, j, b.raised, NothingScanned)
    ELSE Scanned(b.recs, j, FALSE, ScanEntries(kind, entries, j + 1))

ScanFrom(kind, entries, j, b) ==
    IF b.raised \/ kind = "patients"
    THEN Scanned(b.recs, j, b.raised, NothingScanned)
    ELSE Scanned(b.recs, j, FALSE, ScanEntries(kind, entries, j + 1))

ScanEntries(kind, entries, j) ==
    IF j > Len(entries) THEN NothingScanned
    ELSE IF IsNone(GetD(entries[j], "resource"))
    THEN Scanned(<<>>, j, TRUE, NothingScanned)
    ELSE IF GetS(GetD(entries[j], "resource"), "resourceType") # ResourceType(kind)
    THEN ScanEntries(kind, entries, j + 1)
    ELSE ScanFrom(kind, entries, j, Body(kind, entries[j].resource))

\* the outcome of file f put before that of the files after it
\* a file that raises ending the batch
Parsed1_abortsBatch(f, scan, rest) ==
    IF scan.raised
    THEN [records |-> scan.recs,
          origin |-> [i \in 1..Len(scan.src) |-> <<f, scan.src[i]>>],
          errors |-> {f}]
    ELSE [records |-> scan.recs \o rest.records,
          origin |-> [i \in 1..Len(scan.src) |-> <<f, scan.src[i]>>] \o rest.origin,
          errors |-> rest.errors]

Parsed1(f, scan, rest) ==
    [records |-> scan.recs \o rest.records,
     origin |-> [i \in 1..Len(scan.src) |-> <<f, scan.src[i]>>] \o rest.origin,
     errors |-> IF scan.raised THEN rest.errors \cup {f} ELSE rest.errors]

\* for i, file_path in enumerate(file_paths, 1): try: ... except Exception;
\* a file that cannot be opened or decoded raises before any entry is read
RECURSIVE ParseFiles(_, _, _)
ParseFiles(kind, file_paths, f) ==
    IF f > Len(file_paths)
    THEN [records |-> <<>>, origin |-> <<>>, errors |-> {}]
    ELSE Parsed1(f,
                 IF file_paths[f].readable
                 THEN ScanEntries(kind, GetL(file_paths[f].bundle, "entry"), 1)
                 ELSE Scanned(<<>>, 0, TRUE, NothingScanned),
                 ParseFiles(kind, file_paths, f + 1))

parse_patients(file_paths) == ParseFiles("patients", file_paths, 1)
parse_conditions(file_paths) == ParseFiles("conditions", file_paths, 1)
parse_observations(file_paths) == ParseFiles("observations", file_paths, 1)
parse_encounters(file_paths) == ParseFiles("encounters", file_paths, 1)
parse_medication_requests(file_paths) == ParseFiles("medication_requests", file_paths, 1)

\* parse_fhir.main: the five parsers over the same file list
parse_fhir_data(file_paths) ==
    [k \in TableSet |->
        CASE k = "patients" -> parse_patients(file_paths)
          [] k = "conditions" -> parse_conditions(file_paths)
          [] k = "observations" -> parse_observations(file_paths)
          [] k = "encounters" -> parse_encounters(file_paths)
          [] k = "medication_requests" -> parse_medication_requests(file_paths)]

(***************************************************************************)
(* Input documents.  Init draws the content of ../data/raw/fhir from these. *)
(***************************************************************************)
RefUrn(p) == [reference |-> <<URN, p>>]
RefSlash(p) == [reference |-> <<"Patient", "/", p>>]
Coding(c, d) == [coding |-> <<[code |-> c, display |-> d]>>]
Quantity(v, u) == [value |-> v, unit |-> u]
Entry(r) == [resource |-> r]
Readable(entries) == [readable |-> TRUE, bundle |-> [entry |-> entries]]
Unreadable == [readable |-> FALSE, bundle |-> EmptyDict]
CoreUrl(name) == <<"http://hl7.org/fhir/us/core/StructureDefinition/", name>>

Patient(i, given, family) ==
    [resourceType |-> "Patient", id |-> i,
     name |-> <<[given |-> <<given>>, family |-> family]>>,
     gender |-> "female", birthDate |-> "1980-01-01"]
PatientJane == Patient("p1", "Jane", "Doe")
PatientExt ==
    [resourceType |-> "Patient", id |-> "p2",
     extension |-> <<[url |-> CoreUrl("us-core-ethnicity"),
                      extension |-> <<[url |-> "ombCategory"],
                                      [url |-> "text", valueString |-> "Not Hispanic"]>>],
                     [url |-> CoreUrl("us-core-race"),
                      extension |-> <<[url |-> "text", valueString |-> "White"]>>]>>,
     name |-> <<[given |-> <<"Ann", "B">>, family |-> "Lee"],
                [given |-> <<"Annie">>, family |-> "Old"]>>,
     address |-> <<[city |-> "Boston", state |-> "MA"],
                   [city |-> "Salem", state |-> "MA"]>>,
     gender |-> "female", birthDate |-> "1975-05-05"]

Condition(i, subject) ==
    [resourceType |-> "Condition", id |-> i, subject |-> subject,
     code |-> Coding("44054006", "Diabetes"),
     clinicalStatus |-> Coding("active", "Active"),
     onsetDateTime |-> "2001-02-03"]
ConditionNoSubject ==
    [resourceType |-> "Condition", id |-> "c3",
     code |-> Coding("38341003", "Hypertension")]

Vital == <<Coding("vital-signs", "Vital signs")>>
ObsBloodPressure(i, subject) ==
    [resourceType |-> "Observation", id |-> i, subject |-> subject,
     code |-> Coding("85354-9", "Blood pressure"),
     category |-> Vital, effectiveDateTime |-> "2020-01-01",
     component |-> <<[code |-> Coding("8480-6", "Systolic"),
                      valueQuantity |-> Quantity("120", "mmHg")],
                     [code |-> Coding("8462-4", "Diastolic"),
                      valueQuantity |-> Quantity("80", "mmHg")]>>]
ObsQuantity(i, subject) ==
    [resourceType |-> "Observation", id |-> i, subject |-> subject,
     code |-> Coding("29463-7", "Body weight"),
     category |-> Vital, effectiveDateTime |-> "2020-02-02",
     valueQuantity |-> Quantity("70", "kg")]
ObsQuantityAndComponent(i, subject) ==
    [resourceType |-> "Observation", id |-> i, subject |-> subject,
     code |-> Coding("8302-2", "Body height"),
     effectiveDateTime |-> "2020-03-03",
     valueQuantity |-> Quantity("170", "cm"),
     component |-> <<[code |-> Coding("8480-6", "Systolic"),
                      valueQuantity |-> Quantity("121", "mmHg")]>>]
ObsCoded(i, subject) ==
    [resourceType |-> "Observation", id |-> i, subject |-> subject,
     code |-> Coding("72166-2", "Smoking status"),
     valueCodeableConcept |-> Coding("266919005", "Never smoker")]
ObsCodedAndComponent(i, subject) ==
    [resourceType |-> "Observation", id |-> i, subject |-> subject,
     valueCodeableConcept |-> Coding("373066001", "Yes"),
     component |-> <<[code |-> Coding("8462-4", "Diastolic"),
                      valueQuantity |-> Quantity("81", "mmHg")]>>]
ObsAllMarkers(i, subject) ==
    [resourceType |-> "Observation", id |-> i, subject |-> subject,
     valueQuantity |-> Quantity("5", "mg"),
     valueCodeableConcept |-> Coding("373067005", "No"),
     component |-> <<[code |-> Coding("8480-6", "Systolic"),
                      valueQuantity |-> Quantity("122", "mmHg")],
                     [code |-> Coding("8462-4", "Diastolic"),
                      valueQuantity |-> Quantity("82", "mmHg")]>>]
ObsQuantityAndCoded(i, subject) ==
    [resourceType |-> "Observation", id |-> i, subject |-> subject,
     code |-> Coding("2339-0", "Glucose"),
     valueQuantity |-> Quantity("90", "mg/dL"),
     valueCodeableConcept |-> Coding("260385009", "Negative")]
ObsNoMarker(i, subject) ==
    [resourceType |-> "Observation", id |-> i, subject |-> subject,
     code |-> Coding("00000-0", "Note")]
ObsNullQuantity(i, subject) ==
    [resourceType |-> "Observation", id |-> i, subject |-> subject,
     valueQuantity |-> NoneObj]

Encounter(i, subject) ==
    [resourceType |-> "Encounter", id |-> i, subject |-> subject,
     class |-> [code |-> "AMB"],
     type |-> <<Coding("185349003", "Check up")>>,
     period |-> [start |-> "2020-01-01", end |-> "2020-01-02"]]
MedicationRequest(i, subject) ==
    [resourceType |-> "MedicationRequest", id |-> i, subject |-> subject,
     medicationCodeableConcept |-> Coding("860975", "Metformin"),
     authoredOn |-> "2020-04-04", status |-> "active"]

\* a complete history of patient p1, with a two-component observation
FileJane == Readable(<<Entry(PatientJane), Entry(Condition("c1", RefUrn("p1"))),
                       Entry(ObsBloodPressure("obs-1", RefUrn("p1"))),
                       Entry(Encounter("e1", RefSlash("p1"))),
                       Entry(MedicationRequest("m1", RefUrn("p1")))>>)
\* patient p2 with extensions; observations with several value markers
FileExt == Readable(<<Entry(PatientExt),
                      Entry(ObsQuantityAndComponent("obs-2", RefUrn("p2"))),
                      Entry(ObsCoded("obs-3", RefSlash("p2"))),
                      Entry(ObsCodedAndComponent("obs-4", RefUrn("p2"))),
                      Entry(ObsAllMarkers("obs-5", RefUrn("p2"))),
                      Entry(ObsNoMarker("obs-8", RefUrn("p2")))>>)
\* a condition without subject
FileNoSubject == Readable(<<Entry(Patient("p3", "Tom", "Roe")),
                            Entry(ConditionNoSubject)>>)
\* an observation whose id is the text another file's component id will have
FileClash == Readable(<<Entry(Patient("p4", "Eve", "Poe")),
                        Entry(ObsQuantity("obs-1-0", RefUrn("p4"))),
                        Entry(ObsQuantityAndCoded("obs-9", RefUrn("p4")))>>)
\* a null resource after well-formed entries
FileNullEntry == Readable(<<Entry(Patient("p5", "Sam", "Moe")),
                            Entry(Condition("c5", RefUrn("p5"))),
                            Entry(NoneObj),
                            Entry(Condition("c6", RefUrn("p5")))>>)
\* a null valueQuantity after a well-formed observation
FileNullQuantity == Readable(<<Entry(Patient("p6", "Kim", "Yoe")),
                               Entry(ObsQuantity("obs-6", RefUrn("p6"))),
                               Entry(ObsNullQuantity("obs-7", RefUrn("p6")))>>)
\* a condition of a patient no file describes
FileDangling == Readable(<<Entry(Patient("p7", "Lou", "Zoe")),
                           Entry(Condition("c7", RefUrn("p9")))>>)
\* an encounter whose subject object has no reference string
FileNoReference == Readable(<<Entry(Patient("p8", "Ida", "Coe")),
                              Entry(Encounter("e8", [display |-> "Ida Coe"]))>>)
\* a patient resource without id
FileNoId == Readable(<<Entry([resourceType |-> "Patient", gender |-> "male"])>>)
FileEmpty == [readable |-> TRUE, bundle |-> EmptyDict]
\* a patient and nothing else
FileLone == Readable(<<Entry(Patient("p10", "Una", "Low"))>>)
\* a patient whose name has an empty list of given names
FileNoGiven == Readable(<<Entry([resourceType |-> "Patient", id |-> "p11",
                                 name |-> <<[family |-> "Noe", given |-> <<>>]>>,
                                 gender |-> "male", birthDate |-> "1990-09-09"]),
                          Entry(Condition("c11", RefUrn("p11")))>>)
\* two Patient entries
FileTwoPatients == Readable(<<Entry(Patient("p12", "Max", "Ray")),
                              Entry(Patient("p13", "Ned", "Ray")),
                              Entry(Condition("c12", RefUrn("p12")))>>)

Catalog == {FileJane, FileExt, FileNoSubject, FileClash, FileNullEntry,
            FileNullQuantity, FileDangling, FileNoReference, FileNoId,
            FileEmpty, Unreadable, FileLone, FileNoGiven, FileTwoPatients}

(***************************************************************************)
(* The store (load_database.py).  db is the committed content of the file,  *)
(* what a new connection to it sees; conn.pending holds the rows of the     *)
(* transaction the orchestrator's connection has open, which only that      *)
(* connection sees.  DDL runs in autocommit; DataFrame.to_sql commits its   *)
(* own transaction or rolls it back.  createdBy is history: the invocation  *)
(* during which the file came into being, 0 for none.                       *)
(***************************************************************************)
Index(name, table, column) == [name |-> name, table |-> table, column |-> column]
Indexes ==
    {Index("idx_conditions_patient_id", "conditions", "patient_id"),
     Index("idx_observations_patient_id", "observations", "patient_id"),
     Index("idx_encounters_patient_id", "encounters", "patient_id"),
     Index("idx_medication_requests_patient_id", "medication_requests", "patient_id"),
     Index("idx_observations_code", "observations", "code"),
     Index("idx_observations_category", "observations", "category"),
     Index("idx_conditions_code", "conditions", "code"),
     Index("idx_encounters_class", "encounters", "encounter_class")}
IndexNames == {i.name : i \in Indexes}
\* the store d has an index on column of table
Indexed(d, table, column) ==
    \E i \in Indexes : i.name \in d.indexes /\ i.table = table /\ i.column = column

NoFile == [exists |-> FALSE, createdBy |-> 0, tables |-> {},
           rows |-> [t \in TableSet |-> <<>>], indexes |-> {}]
NoFrames == [k \in TableSet |-> <<>>]
NoConn == [open |-> FALSE, foreign_keys |-> FALSE, pending |-> NoFrames]
\* a store left at the path by an earlier build over other documents
StaleFile == [exists |-> TRUE, createdBy |-> 0, tables |-> TableSet,
              rows |-> [t \in TableSet |->
                          IF t = "patients"
                          THEN <<[id |-> "p1", given_name |-> "Janet",
                                  family_name |-> "Doe", gender |-> "female",
                                  birth_date |-> "1980-01-01", race |-> None,
                                  ethnicity |-> None, city |-> None,
                                  state |-> None]>>
                          ELSE <<>>],
              indexes |-> IndexNames]

\* sqlite3.connect(db_path): opens the file, creating it empty when missing
connect(d, r) == IF d.exists THEN d
                 ELSE [NoFile EXCEPT !.exists = TRUE, !.createdBy = r]

\* the pragma left out: SQLite's default, enforcement off
PragmaForeignKeys_skipped(c) == c

\* cursor.execute("PRAGMA foreign_keys = ON")
PragmaForeignKeys(c) == [c EXCEPT !.foreign_keys = TRUE]

\* create_tables: the pragma, five CREATE TABLE IF NOT EXISTS, commit
create_tables(c, d) ==
    [conn |-> PragmaForeignKeys(c),
     db |-> [d EXCEPT !.tables = @ \cup TableSet]]

\* create_indexes: eight CREATE INDEX IF NOT EXISTS, commit
create_indexes(d) == [d EXCEPT !.indexes = @ \cup IndexNames]

\* id TEXT PRIMARY KEY: a non-null id already present (SQLite admits any
\* number of NULLs in a TEXT primary key)
PrimaryKeyFails(row, present) ==
    row.id # None /\ \E r \in Range(present) : r.id = row.id

\* the column declared without NOT NULL
NotNullFails_nullable(name, row) == FALSE

\* patient_id TEXT NOT NULL, in the four child tables
NotNullFails(name, row) == name \in ChildTables /\ row.patient_id = None

\* the child tables declared without the foreign key
ForeignKeyFails_undeclared(name, row, d, c) == FALSE

\* FOREIGN KEY (patient_id) REFERENCES patients(id), checked only when the
\* connection has enforcement on; a NULL child key is never checked
ForeignKeyFails(name, row, d, c) ==
    /\ name \in ChildTables
    /\ c.foreign_keys
    /\ row.patient_id # None
    /\ ~\E q \in Range(d.rows["patients"]) : q.id = row.patient_id

\* the insertion of row into table name, which holds the rows present,
\* raises IntegrityError
Rejects(name, row, present, d, c) ==
    \/ PrimaryKeyFails(row, present)
    \/ NotNullFails(name, row)
    \/ ForeignKeyFails(name, row, d, c)

\* the store as the connection c reads it: the committed rows and the rows
\* of its open transaction
Visible(d, c) ==
    [d EXCEPT !.rows = [t \in TableSet |-> d.rows[t] \o c.pending[t]]]

\* conn.commit() and conn.rollback()
commit(d, c) == [db |-> Visible(d, c), conn |-> [c EXCEPT !.pending = NoFrames]]
rollback(d, c) == [db |-> d, conn |-> [c EXCEPT !.pending = NoFrames]]

\* the INSERT statements of one to_sql call, in row order, inside the
\* connection's transaction
Accepted(name, frame, v, c) ==
    \A i \in DOMAIN frame :
        ~Rejects(name, frame[i], v.rows[name] \o SubSeq(frame, 1, i - 1), v, c)
Inserted(name, frame, d, c, accepted) ==
    [ok |-> accepted, db |-> d,
     conn |-> IF accepted THEN [c EXCEPT !.pending[name] = @ \o frame] ELSE c]
Insert(name, frame, d, c) ==
    Inserted(name, frame, d, c, Accepted(name, frame, Visible(d, c), c))

Settled(r, end) == [ok |-> r.ok, db |-> end.db, conn |-> end.conn]

\* to_sql leaving its transaction open, neither committed nor rolled back
to_sql_uncommitted(name, frame, d, c) == Insert(name, frame, d, c)

\* DataFrame.to_sql(name, conn, if_exists='append', index=False): the rows
\* are inserted in order in one transaction, committed if all are accepted
\* and rolled back otherwise
to_sql(name, frame, d, c) ==
    LET Close(r) == Settled(r, IF r.ok THEN commit(r.db, r.conn)
                                ELSE rollback(r.db, r.conn))
    IN Close(Insert(name, frame, d, c))

\* the query without GROUP BY: the aggregates give one row whatever the
\* tables hold
JoinResults_ungrouped(d) ==
    {[id |-> None, condition_count |-> 0, observation_count |-> 0,
      encounter_count |-> 0, medication_count |-> 0]}

\* the GROUP BY p.id query of verify_load: one row per patient id
JoinResults(d) ==
    LET Matching(t, p) == {r.id : r \in {x \in Range(d.rows[t]) :
                                           p.id # None /\ x.patient_id = p.id}}
                          \ {None}
    IN {[id |-> p.id,
         condition_count |-> Cardinality(Matching("conditions", p)),
         observation_count |-> Cardinality(Matching("observations", p)),
         encounter_count |-> Cardinality(Matching("encounters", p)),
         medication_count |-> Cardinality(Matching("medication_requests", p))] :
        p \in Range(d.rows["patients"])}

\* verify_load with the join test alone
verify_load_noCount(d, frames) == JoinResults(d) # {}

\* verify_load returns normally
verify_load(d, frames) ==
    /\ \A t \in TableSet : Len(d.rows[t]) = Len(frames[t])
    /\ JoinResults(d) # {}

NoErrors == [k \in TableSet |-> {}]
NoView == [seen |-> FALSE, store |-> NoFile]
NoProbe == [fn |-> "none", called |-> FALSE, raised |-> FALSE]
NoRaw == [dir |-> FALSE, archive |-> "absent", extracted |-> {}]
NoBoot == [pc |-> "off", invocation |-> 0, downloads |-> 0, extractions |-> 0,
           before |-> NoRaw]

(***************************************************************************)
(* load_database.main, one action per call it makes                         *)
(***************************************************************************)
Ended == pc \in {"done", "failed"}

\* main without the removal of the existing file
RemoveExisting_skipped ==
    /\ pc = "start"
    /\ pc' = "parse"
    /\ UNCHANGED <<docs, run, dataframes, origin, errors, db, conn, loaded,
                   exitStatus, storeAfter, readerView, probe, raw, boot>>

\* if os.path.exists(db_path): os.remove(db_path)
RemoveExisting ==
    /\ pc = "start"
    /\ db' = NoFile
    /\ pc' = "parse"
    /\ UNCHANGED <<docs, run, dataframes, origin, errors, conn, loaded,
                   exitStatus, storeAfter, readerView, probe, raw, boot>>

\* dataframes = parse_fhir_data()
Parse ==
    /\ pc = "parse"
    /\ \E parsed \in {parse_fhir_data(docs)} :
          /\ dataframes' = [k \in TableSet |-> parsed[k].records]
          /\ origin' = [k \in TableSet |-> parsed[k].origin]
          /\ errors' = [k \in TableSet |-> parsed[k].errors]
    /\ pc' = "connect"
    /\ UNCHANGED <<docs, run, db, conn, loaded, exitStatus, storeAfter,
                   readerView, probe, raw, boot>>

\* conn = sqlite3.connect(db_path)
Connect ==
    /\ pc = "connect"
    /\ db' = connect(db, run)
    /\ conn' = [NoConn EXCEPT !.open = TRUE]
    /\ pc' = "create_tables"
    /\ UNCHANGED <<docs, run, dataframes, origin, errors, loaded, exitStatus,
                   storeAfter, readerView, probe, raw, boot>>

\* main going from the schema straight to the indexes
CreateTables_skipsLoad ==
    /\ pc = "create_tables"
    /\ LET r == create_tables(conn, db)
       IN conn' = r.conn /\ db' = r.db
    /\ pc' = "create_indexes"
    /\ loaded' = 0
    /\ UNCHANGED <<docs, run, dataframes, origin, errors, exitStatus,
                   storeAfter, readerView, probe, raw, boot>>

\* create_tables(conn), then on to load_data
CreateTables ==
    /\ pc = "create_tables"
    /\ LET r == create_tables(conn, db)
       IN conn' = r.conn /\ db' = r.db
    /\ pc' = "load_data"
    /\ loaded' = 0
    /\ UNCHANGED <<docs, run, dataframes, origin, errors, exitStatus,
                   storeAfter, readerView, probe, raw, boot>>

\* the exception swallowed: main returns as after a successful build
Fail_swallowed ==
    /\ pc' = "done"
    /\ conn' = NoConn
    /\ exitStatus' = "ok"
    /\ storeAfter' = Append(storeAfter, db')

\* the exception leaves main through except/finally: conn.close(), raise
Fail ==
    /\ pc' = "failed"
    /\ conn' = NoConn
    /\ exitStatus' = "raised"
    /\ storeAfter' = Append(storeAfter, db')

\* load_data, one to_sql call at a time; after the fifth, conn.commit();
\* on an exception conn.rollback() and raise
LoadTable ==
    /\ pc = "load_data"
    /\ \E r \in {to_sql(Tables[loaded + 1], dataframes[Tables[loaded + 1]],
                         db, conn)} :
          IF r.ok
          THEN /\ loaded' = loaded + 1
               /\ \E end \in {IF loaded + 1 = Len(Tables)
                                THEN commit(r.db, r.conn)
                                ELSE [db |-> r.db, conn |-> r.conn]} :
                     db' = end.db /\ conn' = end.conn
               /\ pc' = IF loaded + 1 = Len(Tables) THEN "create_indexes"
                        ELSE "load_data"
               /\ UNCHANGED <<exitStatus, storeAfter>>
          ELSE /\ UNCHANGED loaded
               /\ db' = rollback(r.db, r.conn).db
               /\ Fail
    /\ UNCHANGED <<docs, run, dataframes, origin, errors, readerView, probe, raw, boot>>

CreateIndexes ==
    /\ pc = "create_indexes"
    /\ db' = create_indexes(db)
    /\ pc' = "verify_load"
    /\ UNCHANGED <<docs, run, dataframes, origin, errors, conn, loaded,
                   exitStatus, storeAfter, readerView, probe, raw, boot>>

\* verify_load, then the summary and finally: conn.close()
VerifyLoad ==
    /\ pc = "verify_load"
    /\ UNCHANGED db
    /\ IF verify_load(Visible(db, conn), dataframes)
       THEN /\ pc' = "done"
            /\ conn' = NoConn
            /\ exitStatus' = "ok"
            /\ storeAfter' = Append(storeAfter, db')
       ELSE Fail
    /\ UNCHANGED <<docs, run, dataframes, origin, errors, loaded, readerView,
                   probe, raw, boot>>

\* the next invocation of main over the same directory
Rerun ==
    /\ Ended
    /\ run < MaxRuns
    /\ run' = run + 1
    /\ pc' = "start"
    /\ dataframes' = NoFrames
    /\ origin' = NoFrames
    /\ errors' = NoErrors
    /\ loaded' = 0
    /\ readerView' = NoView
    /\ UNCHANGED <<docs, db, conn, exitStatus, storeAfter, probe, raw, boot>>

\* analytics.execute_query while main runs: its own connection to db_path
View(d) == [tables |-> d.tables, rows |-> d.rows]
ExecuteQuery ==
    /\ ~Ended
    /\ db' = connect(db, 0)
    /\ readerView' = [seen |-> TRUE, store |-> db']
    /\ UNCHANGED <<docs, pc, run, dataframes, origin, errors, conn, loaded,
                   exitStatus, storeAfter, probe, raw, boot>>

Init ==
    /\ docs \in UNION {[1..n -> Catalog] : n \in 0..MaxDocs}
    /\ pc = "start"
    /\ run = 1
    /\ dataframes = NoFrames
    /\ origin = NoFrames
    /\ errors = NoErrors
    /\ db \in {NoFile, StaleFile}
    /\ conn = NoConn
    /\ loaded = 0
    /\ exitStatus = "none"
    /\ storeAfter = <<db>>
    /\ readerView = NoView
    /\ probe = NoProbe
    /\ raw = NoRaw
    /\ boot = NoBoot

Next ==
    \/ RemoveExisting
    \/ Parse
    \/ Connect
    \/ CreateTables
    \/ LoadTable
    \/ CreateIndexes
    \/ VerifyLoad
    \/ Rerun

Spec == Init /\ [][Next]_vars

\* the same with a reader that may query at any moment of a rebuild
NextReader == Next \/ ExecuteQuery
SpecReader == Init /\ [][NextReader]_vars

(***************************************************************************)
(* The extractors on their own: one call of one extractor on one argument.  *)
(* truncated marks the arguments in which the structure the extractor looks *)
(* for is cut short: None, an empty dict, a missing key, an empty list, a   *)
(* list shorter than the index asked for.                                   *)
(***************************************************************************)
Arg(a, t) == [arg |-> a, truncated |-> t]

ReferenceArgs ==
    <<Arg(NoneObj, TRUE), Arg(EmptyDict, TRUE), Arg([display |-> "Jane"], TRUE),
      Arg([reference |-> <<>>], TRUE),
      Arg(RefUrn("p1"), FALSE), Arg(RefSlash("p1"), FALSE),
      Arg([reference |-> <<"p1">>], FALSE),
      Arg([reference |-> <<URN, "a", "/", "b">>], FALSE),
      Arg([reference |-> <<"Patient", "/", URN, "c">>], FALSE),
      Arg([reference |-> <<"http://x", "/", "Patient", "/", "p2">>], FALSE)>>

TwoCodings == [coding |-> <<[code |-> "c0", display |-> "d0"],
                            [code |-> "c1", display |-> "d1"]>>]
CodingArgs ==
    <<NoneObj, EmptyDict, [text |-> "free text"], [coding |-> <<>>],
      [coding |-> <<EmptyDict>>], [coding |-> <<[code |-> "c0"]>>],
      Coding("c0", "d0"), TwoCodings>>
MaxIndex == 2
CodingTruncated(a, index) ==
    \/ Falsy(a)
    \/ Len(GetL(a, "coding")) <= index
    \/ DOMAIN a.coding[index + 1] = {}

RaceExt(inner) == [url |-> CoreUrl("us-core-race"), extension |-> inner]
EthnicityExt(inner) == [url |-> CoreUrl("us-core-ethnicity"), extension |-> inner]
Text(v) == [url |-> "text", valueString |-> v]
ExtensionArgs ==
    <<Arg(NoneObj, TRUE), Arg(EmptyDict, TRUE), Arg([id |-> "p1"], TRUE),
      Arg([extension |-> <<>>], TRUE),
      Arg([extension |-> <<EmptyDict>>], TRUE),
      Arg([extension |-> <<[url |-> CoreUrl("us-core-race")],
                           [url |-> CoreUrl("us-core-ethnicity")]>>], TRUE),
      Arg([extension |-> <<RaceExt(<<>>), EthnicityExt(<<>>)>>], TRUE),
      Arg([extension |-> <<RaceExt(<<[url |-> "ombCategory"]>>),
                           EthnicityExt(<<[url |-> "ombCategory"]>>)>>], TRUE),
      Arg([extension |-> <<RaceExt(<<[url |-> "text"]>>),
                           EthnicityExt(<<[url |-> "text"]>>)>>], TRUE),
      Arg([extension |-> <<RaceExt(<<Text("White")>>),
                           EthnicityExt(<<Text("Hispanic")>>)>>], FALSE),
      Arg([extension |-> <<EthnicityExt(<<[url |-> "ombCategory"], Text("Hispanic")>>),
                           [url |-> <<"http://other">>],
                           RaceExt(<<[url |-> "ombCategory"], Text("Asian")>>)>>],
          FALSE),
      Arg([extension |-> <<RaceExt(<<>>), RaceExt(<<Text("Black")>>),
                           EthnicityExt(<<Text("Hispanic")>>)>>], FALSE),
      Arg(PatientExt, FALSE), Arg(PatientJane, FALSE)>>

Probe(fn, a, index, t) ==
    [fn |-> fn, arg |-> a, index |-> index, truncated |-> t,
     called |-> FALSE, raised |-> FALSE, result |-> None]

Probes(p) ==
    \/ \E i \in DOMAIN ReferenceArgs :
         p = Probe("extract_reference_id", ReferenceArgs[i].arg, 0,
                   ReferenceArgs[i].truncated)
    \/ \E i \in DOMAIN CodingArgs : \E index \in 0..MaxIndex :
         p = Probe("safe_get_coding", CodingArgs[i], index,
                   CodingTruncated(CodingArgs[i], index))
    \/ \E i \in DOMAIN ExtensionArgs : \E fn \in {"extract_race", "extract_ethnicity"} :
         p = Probe(fn, ExtensionArgs[i].arg, 0, ExtensionArgs[i].truncated)

CallExtractor ==
    /\ pc = "probe"
    /\ ~probe.called
    /\ LET result ==
             CASE probe.fn = "extract_reference_id" -> extract_reference_id(probe.arg)
               [] probe.fn = "safe_get_coding" -> safe_get_coding(probe.arg, probe.index)
               [] probe.fn = "extract_race" -> extract_race(probe.arg)
               [] probe.fn = "extract_ethnicity" -> extract_ethnicity(probe.arg)
       IN probe' = [probe EXCEPT
                      !.called = TRUE,
                      !.result = result,
                      !.raised = probe.fn \in {"extract_race", "extract_ethnicity"}
                                 /\ result = AttributeError]
    /\ UNCHANGED <<docs, pc, run, dataframes, origin, errors, db, conn, loaded,
                   exitStatus, storeAfter, readerView, raw, boot>>

InitExtract ==
    /\ docs = <<>>
    /\ pc = "probe"
    /\ run = 1
    /\ dataframes = NoFrames
    /\ origin = NoFrames
    /\ errors = NoErrors
    /\ db = NoFile
    /\ conn = NoConn
    /\ loaded = 0
    /\ exitStatus = "none"
    /\ storeAfter = <<db>>
    /\ readerView = NoView
    /\ Probes(probe)
    /\ raw = NoRaw
    /\ boot = NoBoot

NextExtract == CallExtractor
SpecExtract == InitExtract /\ [][NextExtract]_vars

(***************************************************************************)
(* download_data.py: the archive is fetched into ../data/raw and unpacked   *)
(* there.  raw.archive is what the file at the archive path is: absent, a   *)
(* zip with the entries Members, a zip without entries, or not a zip.       *)
(***************************************************************************)
MaxInvocations == 2
Members == <<"fhir/a.json", "fhir/b.json", "fhir/c.json">>
Archives == {"zip", "empty zip", "not a zip"}
\* requests.get(url), raise_for_status, open and write: what the archive
\* path holds afterwards when the archive was absent
Responses == Archives \cup {"HTTPError", "ConnectionError", "Timeout", "OSError"}

\* requests.get and the write of the response body
fetch(fs, response) ==
    [fs |-> [fs EXCEPT !.dir = TRUE,
                       !.archive = IF response \in Archives THEN response ELSE @],
     downloaded |-> TRUE]

\* download_data() without the test for an existing archive
download_data_always(fs, response) == fetch(fs, response)

\* download_data()
download_data(fs, response) ==
    IF fs.archive # "absent" THEN [fs |-> fs, downloaded |-> FALSE]
    ELSE fetch(fs, response)

\* zip_ref.extractall(extract_to) writing the first written entries before
\* it returns or raises
extractall(fs, written) ==
    [fs |-> [fs EXCEPT !.extracted = @ \cup {Members[i] : i \in 1..written}],
     extracting |-> TRUE]

\* unzip_data() without the test for the first entry
unzip_data_always(fs, written) ==
    IF fs.archive # "zip" THEN [fs |-> fs, extracting |-> FALSE]
    ELSE extractall(fs, written)

\* unzip_data(): BadZipFile for a file that is no zip, IndexError on
\* file_list[0] for a zip without entries, both caught
unzip_data(fs, written) ==
    IF fs.archive # "zip" THEN [fs |-> fs, extracting |-> FALSE]
    ELSE IF Members[1] \in fs.extracted THEN [fs |-> fs, extracting |-> FALSE]
    ELSE extractall(fs, written)

DownloadData ==
    /\ boot.pc = "download_data"
    /\ \E response \in Responses :
          \E r \in {download_data(raw, response)} :
              /\ raw' = r.fs
              /\ boot' = [boot EXCEPT
                            !.pc = "unzip_data",
                            !.downloads = IF r.downloaded THEN @ + 1 ELSE @]
    /\ UNCHANGED <<docs, pc, run, dataframes, origin, errors, db, conn, loaded,
                   exitStatus, storeAfter, readerView, probe>>

UnzipData ==
    /\ boot.pc = "unzip_data"
    /\ \E written \in 0..Len(Members) :
          \E r \in {unzip_data(raw, written)} :
              /\ raw' = r.fs
              /\ boot' = [boot EXCEPT
                            !.pc = "exit",
                            !.extractions = IF r.extracting THEN @ + 1 ELSE @]
    /\ UNCHANGED <<docs, pc, run, dataframes, origin, errors, db, conn, loaded,
                   exitStatus, storeAfter, readerView, probe>>

\* the script run once more
Reinvoke ==
    /\ boot.pc = "exit"
    /\ boot.invocation < MaxInvocations
    /\ boot' = [boot EXCEPT !.pc = "download_data", !.invocation = @ + 1,
                            !.before = raw]
    /\ UNCHANGED <<docs, pc, run, dataframes, origin, errors, db, conn, loaded,
                   exitStatus, storeAfter, readerView, probe, raw>>

\* the directory as the first invocation may find it
RawStates ==
    {NoRaw} \cup [dir : {TRUE}, archive : Archives \cup {"absent"},
                  extracted : SUBSET Range(Members)]

InitBootstrap ==
    /\ docs = <<>>
    /\ pc = "bootstrap"
    /\ run = 1
    /\ dataframes = NoFrames
    /\ origin = NoFrames
    /\ errors = NoErrors
    /\ db = NoFile
    /\ conn = NoConn
    /\ loaded = 0
    /\ exitStatus = "none"
    /\ storeAfter = <<db>>
    /\ readerView = NoView
    /\ probe = NoProbe
    /\ raw \in RawStates
    /\ boot = [NoBoot EXCEPT !.pc = "download_data", !.invocation = 1,
                             !.before = raw]

NextBootstrap == DownloadData \/ UnzipData \/ Reinvoke
SpecBootstrap == InitBootstrap /\ [][NextBootstrap]_vars

(***************************************************************************)
(* Properties                                                               *)
(***************************************************************************)
Parsed == pc \notin {"start", "parse", "probe", "bootstrap"}
PatientRows == db.rows["patients"]

\* C1: in the store of a run that reached Done every row of the four child
\* tables has a patient_id that is the id of exactly one row of patients, and
\* foreign-key enforcement is on for the connection that loads.
C1_ReferentialIntegrity ==
    /\ pc = "load_data" => conn.foreign_keys
    /\ pc = "done" =>
         \A t \in ChildTables : \A i \in DOMAIN db.rows[t] :
            Cardinality({j \in DOMAIN PatientRows :
                            PatientRows[j].id = db.rows[t][i].patient_id}) = 1

C1_Witness ==
    /\ pc = "done"
    /\ \A t \in ChildTables : db.rows[t] # <<>>

\* C2: a further run of main over the same documents ends with a store whose
\* five tables have the same row counts and the same rows as after the run
\* before it, and the file a run works on is one it created itself: the file
\* found at the path is gone from the removal step on.
SameContent(d, e) ==
    /\ d.tables = e.tables
    /\ \A t \in TableSet : /\ Len(d.rows[t]) = Len(e.rows[t])
                           /\ Range(d.rows[t]) = Range(e.rows[t])

C2_IdempotentRerun ==
    /\ pc # "start" /\ db.exists => db.createdBy = run
    /\ run > 1 /\ Ended => SameContent(db, storeAfter[run])

C2_Witness ==
    /\ run = 2
    /\ pc = "done"
    /\ db.rows["patients"] # <<>>
    /\ db.rows["observations"] # <<>>

\* C3 (as claimed): when a run ends in Failed the file at the database path
\* holds no table and no row written by that run.
C3_NoPartialStore ==
    pc = "failed" =>
      /\ db.tables = {}
      /\ \A t \in TableSet : db.rows[t] = <<>>

\* the entries of the documents, as <<file, position>>, whose resource is of
\* the kind a parser selects
EntriesOf(kind) ==
    UNION {{<<f, j>> : j \in {n \in DOMAIN GetL(docs[f].bundle, "entry") :
                GetS(GetD(docs[f].bundle.entry[n], "resource"), "resourceType")
                    = ResourceType(kind)}} :
           f \in {g \in DOMAIN docs : docs[g].readable}}
ResourceAt(fj) == docs[fj[1]].bundle.entry[fj[2]].resource
\* the positions in a parser's output of the records one entry produced
RecordsFrom(kind, fj) == {i \in DOMAIN origin[kind] : origin[kind][i] = fj}
Clean(kind, fj) == fj[1] \notin errors[kind]
RecordIds(kind) == {dataframes[kind][i].id : i \in DOMAIN dataframes[kind]}

\* C4: an Observation entry whose value shape is a list of M components
\* yields exactly M records and no parent record; the record of the component
\* at zero-based position i has id '<parent id>-<i>' and that component's
\* code, display, value and unit, and all M carry the parent's patient
\* reference, category and effective date ('obs-1' with two components gives
\* 'obs-1-0' and 'obs-1-1').
ComponentShaped(r) ==
    /\ Has(r, "component")
    /\ ~Has(r, "valueQuantity")
    /\ ~Has(r, "valueCodeableConcept")

C4_ComponentFanOut ==
    Parsed =>
      /\ \A fj \in EntriesOf("observations") :
           LET r == ResourceAt(fj)
               frame == dataframes["observations"]
           IN ComponentShaped(r) /\ Clean("observations", fj) =>
                LET M == Len(r.component)
                IN /\ Cardinality(RecordsFrom("observations", fj)) = M
                   /\ \E base \in 0..Len(frame) :
                        /\ RecordsFrom("observations", fj) = (base + 1)..(base + M)
                        /\ \A i \in 0..(M - 1) :
                             LET rec == frame[base + 1 + i]
                                 comp == r.component[i + 1]
                             IN /\ rec.id = r.id \o "-" \o IntStr(i)
                                /\ rec.code = comp.code.coding[1].code
                                /\ rec.display = comp.code.coding[1].display
                                /\ rec.value = comp.valueQuantity.value
                                /\ rec.unit = comp.valueQuantity.unit
                                /\ rec.patient_id = extract_reference_id(r.subject)
                                /\ rec.category = r.category[1].coding[1].code
                                /\ rec.effective_date = r.effectiveDateTime
      /\ (\E f \in DOMAIN docs : docs[f] = FileJane) =>
           /\ {"obs-1-0", "obs-1-1"} \subseteq RecordIds("observations")
           /\ "obs-1" \notin RecordIds("observations")

C4_Witness ==
    /\ Parsed
    /\ \E i \in DOMAIN dataframes["observations"] :
         /\ dataframes["observations"][i].id = "obs-1-1"
         /\ dataframes["observations"][i].value = "80"

\* C5: an Observation entry with more than one value marker yields one
\* record, of the first shape present in the order valueQuantity,
\* valueCodeableConcept, component: with a quantity the record holds the
\* quantity's value and unit, and no component record is made.
Markers(r) == {m \in {"valueQuantity", "valueCodeableConcept", "component"} :
                 Has(r, m)}

C5_ValueShapePriority ==
    Parsed =>
      \A fj \in EntriesOf("observations") :
        LET r == ResourceAt(fj)
        IN Cardinality(Markers(r)) > 1 /\ Clean("observations", fj) =>
             /\ Cardinality(RecordsFrom("observations", fj)) = 1
             /\ \A i \in RecordsFrom("observations", fj) :
                  LET rec == dataframes["observations"][i]
                  IN /\ rec.id = r.id
                     /\ IF Has(r, "valueQuantity")
                        THEN /\ rec.value = r.valueQuantity.value
                             /\ rec.unit = r.valueQuantity.unit
                        ELSE /\ rec.value = r.valueCodeableConcept.coding[1].display
                             /\ rec.unit = None

C5_Witness ==
    /\ Parsed
    /\ \E i \in DOMAIN dataframes["observations"] :
         /\ dataframes["observations"][i].id = "obs-2"
         /\ dataframes["observations"][i].value = "170"
         /\ dataframes["observations"][i].unit = "cm"

\* C6 (as claimed): each parser returns exactly the records of the documents
\* it did not report an error for; a document it reported contributes no
\* record.
RECURSIVE Without(_, _, _)
Without(files, bad, f) ==
    IF f > Len(files) THEN <<>>
    ELSE (IF f \in bad THEN <<>> ELSE <<files[f]>>) \o Without(files, bad, f + 1)

C6_PartialFailureTolerance ==
    Parsed =>
      \A k \in TableSet :
        /\ \A i \in DOMAIN origin[k] : origin[k][i][1] \notin errors[k]
        /\ dataframes[k] = ParseFiles(k, Without(docs, errors[k], 1), 1).records

\* C8 (as claimed): when the source resources of a kind have pairwise
\* distinct ids, no two records of that kind's parser share an id.
DistinctSourceIds(kind) ==
    \A a, b \in EntriesOf(kind) :
        a # b => GetS(ResourceAt(a), "id") # GetS(ResourceAt(b), "id")

C8_UniqueIds ==
    Parsed =>
      \A k \in TableSet :
        DistinctSourceIds(k) =>
          \A i, j \in DOMAIN dataframes[k] :
             i # j => dataframes[k][i].id # dataframes[k][j].id

\* C9 (as claimed): a child entry without a resolvable subject reference
\* (no subject, an empty subject, or a subject without reference text) is
\* emitted with a null patient reference.
NoSubject(r) == Falsy(GetD(r, "subject"))
Unresolvable(r) == NoSubject(r) \/ GetL(r.subject, "reference") = <<>>

C9_NullReferenceEmitted ==
    Parsed =>
      \A k \in ChildTables : \A fj \in EntriesOf(k) :
        Unresolvable(ResourceAt(fj)) /\ Clean(k, fj) =>
          /\ RecordsFrom(k, fj) # {}
          /\ \A i \in RecordsFrom(k, fj) : dataframes[k][i].patient_id = None

\* C9 (amended): a child entry with no subject or an empty subject is emitted
\* with a null patient reference, not dropped; a run whose parsers emitted
\* such a record never gets past load_data and ends in Failed with the error
\* raised, and no row with a null patient_id is ever in the store.
NullReferenceRecords ==
    UNION {{<<k, i>> : i \in {n \in DOMAIN dataframes[k] :
                                dataframes[k][n].patient_id = None}} :
           k \in ChildTables}

C9_NoSubjectFailsClosed ==
    /\ Parsed =>
         \A k \in ChildTables : \A fj \in EntriesOf(k) :
           NoSubject(ResourceAt(fj)) /\ Clean(k, fj) =>
             /\ RecordsFrom(k, fj) # {}
             /\ \A i \in RecordsFrom(k, fj) : dataframes[k][i].patient_id = None
    /\ NullReferenceRecords # {} =>
         /\ pc \notin {"create_indexes", "verify_load", "done"}
         /\ Ended => pc = "failed" /\ exitStatus = "raised"
    /\ \A t \in ChildTables : \A i \in DOMAIN db.rows[t] :
         db.rows[t][i].patient_id # None

C9_Witness ==
    /\ pc = "failed"
    /\ loaded = 1
    /\ db.rows["patients"] # <<>>
    /\ \E i \in DOMAIN dataframes["conditions"] :
         dataframes["conditions"][i].patient_id = None

\* C7 (as claimed): on every truncated or absent input each extractor
\* returns None, the empty string or (None, None), and does not raise.
EmptyResult ==
    IF probe.fn = "safe_get_coding" THEN probe.result = <<None, None>>
    ELSE probe.result \in {None, ""}

C7_ExtractorsNullSafe ==
    probe.called /\ probe.truncated => ~probe.raised /\ EmptyResult

\* C10 (as claimed): whatever a reader saw during a rebuild that succeeds is
\* the complete store the rebuild started from or the complete store it
\* ended with.
StoreAtStart == storeAfter[run]

C10_NoMidBuildRead ==
    pc = "done" /\ readerView.seen =>
      View(readerView.store) \in {View(StoreAtStart), View(db)}

\* the phase of the orchestrator a position of main belongs to
Phases == <<"Init", "SchemaCreate", "LoadParent", "LoadChildren",
            "IndexCreate", "Verify", "Done">>
Phase ==
    CASE pc \in {"start", "parse", "connect"} -> 1
      [] pc = "create_tables" -> 2
      [] pc = "load_data" /\ loaded = 0 -> 3
      [] pc = "load_data" /\ loaded > 0 -> 4
      [] pc = "create_indexes" -> 5
      [] pc = "verify_load" -> 6
      [] pc = "done" -> 7
      [] OTHER -> 0

\* C11: within a run the phase either stays, advances to the next phase of
\* Init, SchemaCreate, LoadParent, LoadChildren, IndexCreate, Verify, Done,
\* or the run fails; nothing leaves Done or Failed but the next invocation,
\* which starts in Init.
C11_PhaseOrder ==
    [][\/ run' = run /\ Phase \in 1..6 /\ Phase' \in {Phase, Phase + 1}
       \/ run' = run /\ Phase \in 1..6 /\ pc' = "failed"
       \/ run' = run /\ Ended /\ pc' = pc
       \/ run' = run + 1 /\ Ended /\ Phase' = 1]_vars

C11_Witness ==
    /\ pc = "done"
    /\ loaded = Len(Tables)
    /\ db.tables = TableSet
    /\ db.indexes # {}
    /\ exitStatus = "ok"

\* C12: whenever load_data is at a child table, every patient record of the
\* run is in the committed store and none is left in an open transaction.
C12_ParentCommittedFirst ==
    pc = "load_data" /\ loaded >= 1 =>
        /\ db.rows["patients"] = dataframes["patients"]
        /\ conn.pending["patients"] = <<>>

C12_Witness ==
    /\ pc = "load_data"
    /\ loaded = 2
    /\ db.rows["patients"] # <<>>
    /\ db.rows["conditions"] # <<>>

\* the store d without the last row of table t
Short(d, t) == [d EXCEPT !.rows[t] = SubSeq(@, 1, Len(@) - 1)]

\* C13: a run is Done only with as many rows in each of the five tables as
\* its parser produced records, and verification refuses a store that has a
\* row less than that in any table.
C13_RowCountsVerified ==
    /\ pc = "done" =>
         \A t \in TableSet : Len(db.rows[t]) = Len(dataframes[t])
    /\ pc = "verify_load" =>
         \A t \in {u \in TableSet : db.rows[u] # <<>>} :
            ~verify_load(Short(Visible(db, conn), t), dataframes)

C13_Witness ==
    /\ pc = "done"
    /\ \A t \in TableSet : Len(db.rows[t]) = Len(dataframes[t])
    /\ \E t \in TableSet : Len(db.rows[t]) >= 2

\* C14 (as claimed): a store that reaches Done has a child row joined to a
\* patient row.
C14_JoinReachesChildren ==
    pc = "done" =>
        \E t \in ChildTables : \E i \in DOMAIN db.rows[t] :
            \E p \in DOMAIN PatientRows :
                db.rows[t][i].patient_id = PatientRows[p].id
\* the columns the analytics queries filter on, as the specification lists
\* them: code, category, clinical status, encounter class
FilterColumns == {<<"observations", "code">>, <<"conditions", "code">>,
                  <<"observations", "category">>,
                  <<"conditions", "clinical_status">>,
                  <<"encounters", "encounter_class">>}

\* C15 (as claimed): once create_indexes has run the store has an index on
\* patient_id of each of the four child tables and on each filter column.
C15_IndexesCoverFilters ==
    pc \in {"verify_load", "done"} =>
        /\ \A t \in ChildTables : Indexed(db, t, "patient_id")
        /\ \A tc \in FilterColumns : Indexed(db, tc[1], tc[2])
\* the fields of a resource that hold an object, and a resource or document
\* none of whose objects is an explicit null
ObjectFields == {"subject", "code", "clinicalStatus", "valueQuantity",
                 "valueCodeableConcept", "class", "period",
                 "medicationCodeableConcept"}
NoNullObject(resource) ==
    /\ ~IsNone(resource)
    /\ \A f \in DOMAIN resource \cap ObjectFields : ~IsNone(resource[f])
NoNullIn(file) ==
    /\ file.readable
    /\ \A j \in DOMAIN GetL(file.bundle, "entry") :
          NoNullObject(GetD(file.bundle.entry[j], "resource"))

\* C16 (as claimed): a readable document whose resources only lack optional
\* fields, or have empty lists for them, and hold no explicit null, is logged
\* as a parse error by no parser, and each of its resources yields a record.
C16_AbsentFieldNeverAnError ==
    Parsed =>
        \A f \in {g \in DOMAIN docs : NoNullIn(docs[g])} :
            \A k \in TableSet :
                /\ f \notin errors[k]
                /\ \A fj \in {e \in EntriesOf(k) : e[1] = f} :
                       RecordsFrom(k, fj) # {}
\* a Patient resource with id, a first given name, family name, gender and
\* birth date and without extensions, the only Patient entry of its document
Plain(fj) ==
    /\ \A e \in EntriesOf("patients") : e[1] = fj[1] => e = fj
    /\ ~Has(ResourceAt(fj), "extension")
    /\ {"id", "name", "gender", "birthDate"} \subseteq DOMAIN ResourceAt(fj)
    /\ ResourceAt(fj).name # <<>>
    /\ {"given", "family"} \subseteq DOMAIN ResourceAt(fj).name[1]
    /\ ResourceAt(fj).name[1].given # <<>>
PatientsOf(f) ==
    {i \in DOMAIN origin["patients"] : origin["patients"][i][1] = f}

\* C17: a document with one such Patient yields exactly one patient record;
\* its race and ethnicity are null and id, given name (the first), family
\* name, gender and birth date are the source values.
C17_PlainPatient ==
    Parsed =>
        \A fj \in {e \in EntriesOf("patients") : Plain(e)} :
            /\ Cardinality(PatientsOf(fj[1])) = 1
            /\ \A i \in PatientsOf(fj[1]) :
                  /\ dataframes["patients"][i].race = None
                  /\ dataframes["patients"][i].ethnicity = None
                  /\ dataframes["patients"][i].id = ResourceAt(fj).id
                  /\ dataframes["patients"][i].given_name
                        = ResourceAt(fj).name[1].given[1]
                  /\ dataframes["patients"][i].family_name
                        = ResourceAt(fj).name[1].family
                  /\ dataframes["patients"][i].gender = ResourceAt(fj).gender
                  /\ dataframes["patients"][i].birth_date
                        = ResourceAt(fj).birthDate

C17_Witness ==
    /\ Parsed
    /\ \E f \in DOMAIN docs : docs[f] = FileJane
    /\ \E i \in DOMAIN dataframes["patients"] :
          dataframes["patients"][i] =
              [id |-> "p1", given_name |-> "Jane", family_name |-> "Doe",
               gender |-> "female", birth_date |-> "1980-01-01",
               race |-> None, ethnicity |-> None, city |-> None, state |-> None]

\* C18 (as claimed): every encounter row of the store has an encounter class
\* among ambulatory, emergency, inpatient, other.
EncounterClasses == {"ambulatory", "emergency", "inpatient", "other"}
C18_EncounterClassNormalized ==
    \A i \in DOMAIN db.rows["encounters"] :
        db.rows["encounters"][i].encounter_class \in EncounterClasses
\* the step main is about to take raises
Raises ==
    \/ /\ pc = "load_data"
       /\ ~to_sql(Tables[loaded + 1], dataframes[Tables[loaded + 1]], db, conn).ok
    \/ /\ pc = "verify_load"
       /\ ~verify_load(Visible(db, conn), dataframes)

\* C19: a step that raises takes the run to Failed; a Failed run has its
\* connection closed and its exception raised out of main, a run reports
\* success only when Done, and within the run nothing follows Failed: the
\* store, the position and the exit status stay as they are.
C19_FailedTerminal ==
    /\ [](pc = "failed" => exitStatus = "raised" /\ ~conn.open)
    /\ [](Ended /\ exitStatus = "ok" => pc = "done")
    /\ [][Raises => pc' = "failed" /\ exitStatus' = "raised"]_vars
    /\ [][pc = "failed" /\ run' = run => UNCHANGED <<pc, db, exitStatus>>]_vars

C19_Witness ==
    /\ pc = "failed"
    /\ exitStatus = "raised"
    /\ loaded = Len(Tables)
    /\ db.indexes # {}
\* C20: download_data fetches nothing and leaves ../data/raw as it is when
\* the archive file exists; unzip_data extracts nothing and leaves it as it
\* is when the archive's first entry is already there; and an invocation of
\* download_data then unzip_data that starts with the archive present and
\* extracted ends with ../data/raw as it found it.
Extracted(fs) == fs.archive = "zip" /\ Members[1] \in fs.extracted
C20_BootstrapIdempotent ==
    /\ [][boot.pc = "download_data" /\ raw.archive # "absent" =>
            raw' = raw /\ boot'.downloads = boot.downloads]_vars
    /\ [][boot.pc = "unzip_data" /\ Extracted(raw) =>
            raw' = raw /\ boot'.extractions = boot.extractions]_vars
    /\ [](Extracted(boot.before) => raw = boot.before)

C20_Witness ==
    /\ boot.invocation = 2
    /\ boot.pc = "exit"
    /\ boot.downloads = 1
    /\ boot.extractions = 1
    /\ raw.extracted = Range(Members)
    /\ raw = boot.before
\* C21: in a document its parser reads without error, an Observation entry
\* without the component marker yields exactly one record, with the entry's
\* id; value and unit are those of valueQuantity when it is present, the
\* display of valueCodeableConcept and null when only that is present, and
\* both null when no marker is present.
C21_SingleValueShapes ==
    Parsed =>
        \A fj \in {e \in EntriesOf("observations") :
                      ~Has(ResourceAt(e), "component") /\ Clean("observations", e)} :
            /\ Cardinality(RecordsFrom("observations", fj)) = 1
            /\ \A i \in RecordsFrom("observations", fj) :
                  /\ dataframes["observations"][i].id = GetS(ResourceAt(fj), "id")
                  /\ Has(ResourceAt(fj), "valueQuantity") =>
                        /\ dataframes["observations"][i].value
                              = ResourceAt(fj).valueQuantity.value
                        /\ dataframes["observations"][i].unit
                              = ResourceAt(fj).valueQuantity.unit
                  /\ Markers(ResourceAt(fj)) = {"valueCodeableConcept"} =>
                        /\ dataframes["observations"][i].value
                              = ResourceAt(fj).valueCodeableConcept.coding[1].display
                        /\ dataframes["observations"][i].unit = None
                  /\ Markers(ResourceAt(fj)) = {} =>
                        /\ dataframes["observations"][i].value = None
                        /\ dataframes["observations"][i].unit = None

C21_Witness ==
    /\ Parsed
    /\ \E i, j, k \in DOMAIN dataframes["observations"] :
          /\ dataframes["observations"][i].id = "obs-3"
          /\ dataframes["observations"][i].value = "Never smoker"
          /\ dataframes["observations"][i].unit = None
          /\ dataframes["observations"][j].id = "obs-8"
          /\ dataframes["observations"][j].value = None
          /\ dataframes["observations"][k].id = "obs-9"
          /\ dataframes["observations"][k].value = "90"
          /\ dataframes["observations"][k].unit = "mg/dL"
\* the position of the first Patient entry of document f
FirstPatient(f) ==
    CHOOSE j \in {e[2] : e \in {x \in EntriesOf("patients") : x[1] = f}} :
        \A e \in EntriesOf("patients") : e[1] = f => j <= e[2]

\* C22: a document yields at most one patient record; the record comes from
\* the document's first Patient entry, and its given and family name, city
\* and state are those of the first element of the name list and of the
\* address list.
C22_FirstPatientFirstName ==
    Parsed =>
        \A f \in DOMAIN docs :
            /\ Cardinality(PatientsOf(f)) <= 1
            /\ \A i \in PatientsOf(f) :
                  /\ origin["patients"][i] = <<f, FirstPatient(f)>>
                  /\ dataframes["patients"][i].id
                        = GetS(ResourceAt(origin["patients"][i]), "id")
                  /\ GetL(ResourceAt(origin["patients"][i]), "name") # <<>> =>
                        /\ dataframes["patients"][i].given_name
                              = ResourceAt(origin["patients"][i]).name[1].given[1]
                        /\ dataframes["patients"][i].family_name
                              = ResourceAt(origin["patients"][i]).name[1].family
                  /\ GetL(ResourceAt(origin["patients"][i]), "address") # <<>> =>
                        /\ dataframes["patients"][i].city
                              = ResourceAt(origin["patients"][i]).address[1].city
                        /\ dataframes["patients"][i].state
                              = ResourceAt(origin["patients"][i]).address[1].state

C22_Witness ==
    /\ Parsed
    /\ Len(docs) = 2
    /\ docs[1] = FileTwoPatients
    /\ docs[2] = FileExt
    /\ Len(dataframes["patients"]) = 2
    /\ dataframes["patients"][1].id = "p12"
    /\ dataframes["patients"][2].given_name = "Ann"
    /\ dataframes["patients"][2].city = "Boston"
\* what each argument of ReferenceArgs resolves to
ReferenceExpected == <<None, None, "", "", "p1", "p1", "p1", "a/b", "c", "p2">>

\* C23: extract_reference_id does not raise; it returns None for no or an
\* empty reference object, the empty string for an object without reference
\* text, the text after 'urn:uuid:' for a reference that contains it, also
\* when the reference contains a slash as well, and otherwise the text after
\* the last slash, or the reference itself when it has none.
C23_ReferenceResolution ==
    probe.called /\ probe.fn = "extract_reference_id" =>
        /\ ~probe.raised
        /\ Falsy(probe.arg) => probe.result = None
        /\ \A i \in DOMAIN ReferenceArgs :
              probe.arg = ReferenceArgs[i].arg => probe.result = ReferenceExpected[i]

C23_Witness ==
    /\ probe.called
    /\ probe.fn = "extract_reference_id"
    /\ probe.arg = [reference |-> <<URN, "a", "/", "b">>]
    /\ probe.result = "a/b"

\* C24: safe_get_coding returns the code and display of the coding at the
\* requested position (0 for the first), and (None, None) when the concept
\* is absent or empty, has no or an empty coding list, or the list is not
\* longer than the position.
NoCodingAt(concept, index) ==
    Falsy(concept) \/ Len(GetL(concept, "coding")) <= index

C24_CodingAtIndex ==
    probe.called /\ probe.fn = "safe_get_coding" =>
        /\ ~probe.raised
        /\ IF NoCodingAt(probe.arg, probe.index)
           THEN probe.result = <<None, None>>
           ELSE probe.result = <<GetS(probe.arg.coding[probe.index + 1], "code"),
                                 GetS(probe.arg.coding[probe.index + 1], "display")>>
        /\ probe.arg = TwoCodings =>
              probe.result = CASE probe.index = 0 -> <<"c0", "d0">>
                               [] probe.index = 1 -> <<"c1", "d1">>
                               [] OTHER -> <<None, None>>

C24_Witness ==
    /\ probe.called
    /\ probe.fn = "safe_get_coding"
    /\ probe.arg = TwoCodings
    /\ probe.index = 1
    /\ probe.result = <<"c1", "d1">>

\* what each argument of ExtensionArgs after the first, which is None,
\* resolves to
RaceExpected == <<None, None, None, None, None, None, None, None,
                  "White", "Asian", "Black", "White", None>>
EthnicityExpected == <<None, None, None, None, None, None, None, None,
                       "Hispanic", "Hispanic", "Hispanic", "Not Hispanic", None>>

\* C25: for a patient resource, extract_race and extract_ethnicity return
\* the valueString of the nested extension with url 'text' of a top-level
\* extension whose url contains the marker, wherever the two stand in their
\* lists, and None when the extension list, the marked extension, its nested
\* list or the 'text' entry is missing.
C25_ExtensionText ==
    probe.called /\ probe.fn \in {"extract_race", "extract_ethnicity"} =>
        \A i \in 2..Len(ExtensionArgs) :
            probe.arg = ExtensionArgs[i].arg =>
                /\ ~probe.raised
                /\ probe.result = IF probe.fn = "extract_race"
                                  THEN RaceExpected[i - 1]
                                  ELSE EthnicityExpected[i - 1]

C25_Witness ==
    /\ probe.called
    /\ probe.fn = "extract_race"
    /\ probe.arg = ExtensionArgs[11].arg
    /\ probe.result = "Asian"
\* C26 (as claimed): the condition, encounter and medication-request
\* parsers each return as many records as there are entries of their
\* resource type in the documents they parse without error, and every record
\* comes from an entry of that type.
C26_OneRecordPerEntry ==
    Parsed =>
        \A k \in {"conditions", "encounters", "medication_requests"} :
            /\ Len(dataframes[k])
                  = Cardinality({e \in EntriesOf(k) : Clean(k, e)})
            /\ \A i \in DOMAIN origin[k] :
                  ResourceAt(origin[k][i]).resourceType = ResourceType(k)
\* the sequences a and b hold the same elements the same number of times
Times(a, x) == Cardinality({i \in DOMAIN a : a[i] = x})
SameBag(a, b) ==
    /\ Len(a) = Len(b)
    /\ \A x \in Range(a) : Times(a, x) = Times(b, x)
\* the documents in the order given by the permutation p of their positions
Reordered(p) == [i \in DOMAIN docs |-> docs[p[i]]]

\* C27: every parser returns, for each reordering of the documents, the
\* same records the same number of times as for the order it was given.
C27_OrderIndependent ==
    pc = "connect" =>
        \A p \in Permutations(DOMAIN docs) : \A k \in TableSet :
            SameBag(ParseFiles(k, Reordered(p), 1).records, dataframes[k])

C27_Witness ==
    /\ pc = "connect"
    /\ Len(docs) = 2
    /\ docs[1] = FileNullEntry
    /\ docs[2] = FileJane
    /\ Len(dataframes["conditions"]) = 2
    /\ errors["conditions"] = {1}
\* C28 (as claimed): when an insert of load_data raises, none of the five
\* tables keeps a row of that call, and the exception reaches the caller.
C28_LoadRolledBack ==
    pc = "failed" /\ loaded < Len(Tables) =>
        /\ \A t \in TableSet : db.rows[t] = <<>>
        /\ exitStatus = "raised"
\* the documents that raised inside parse_patients and gave no patient
\* record, and the child records that came out of them for a patient no
\* patient record describes
LostPatient == {f \in errors["patients"] : docs[f].readable /\ PatientsOf(f) = {}}
Orphans ==
    UNION {{<<k, i>> : i \in {n \in DOMAIN dataframes[k] :
                /\ origin[k][n][1] \in LostPatient
                /\ dataframes[k][n].patient_id \notin RecordIds("patients")}} :
           k \in ChildTables}

\* C29: a document that raised inside parse_patients still contributes a
\* record for each of its child entries to every child parser that reads it
\* without error; when such a record names a patient without a patient
\* record the run does not get past load_data and ends in Failed.
C29_FailurePerParser ==
    /\ Parsed =>
         \A f \in LostPatient : \A k \in ChildTables :
             f \notin errors[k] =>
                 \A fj \in {e \in EntriesOf(k) : e[1] = f} : RecordsFrom(k, fj) # {}
    /\ Parsed /\ Orphans # {} =>
         /\ pc \notin {"create_indexes", "verify_load", "done"}
         /\ Ended => pc = "failed" /\ loaded < Len(Tables)

C29_Witness ==
    /\ pc = "failed"
    /\ Len(docs) = 2
    /\ docs[1] = FileJane
    /\ docs[2] = FileNoGiven
    /\ Orphans # {}
    /\ Len(db.rows["patients"]) = 1
    /\ db.rows["conditions"] = <<>>
\* C30: a run whose parsers returned no patient record is never Done;
\* verification refuses its store if it gets that far, and it ends in Failed.
C30_NoPatientsNeverDone ==
    Parsed /\ dataframes["patients"] = <<>> =>
        /\ pc # "done"
        /\ pc = "verify_load" => ~verify_load(Visible(db, conn), dataframes)
        /\ Ended => pc = "failed" /\ exitStatus = "raised"

C30_Witness ==
    /\ pc = "failed"
    /\ docs = <<Unreadable>>
    /\ dataframes["patients"] = <<>>
    /\ errors["patients"] = {1}
    /\ loaded = Len(Tables)
====
